---- MODULE Spec2Model ----
(***************************************************************************)
(* A model of the /rates endpoint of solution/rates.py: get_rates,         *)
(* RatesEndpoint.get_data, normalize_params, get_all_regions_within and    *)
(* the aggregate query built by construct_rates_sql, run against a store   *)
(* holding the regions, ports, prices and alldates tables.                 *)
(***************************************************************************)
EXTENDS Integers, Sequences, FiniteSets, TLC

VARIABLES
    regions,        \* regions table: slug -> parent_slug (NULL for a root)
    ports,          \* ports table: code -> parent_slug
    prices,         \* prices table: a sequence of rows (orig_code, dest_code, day, price)
    alldates,       \* alldates table: the set of its days
    conn,           \* the store connection of get_rates: none, open, failed, closed
    args,           \* request.args as get_rates reads them (raw strings)
    pc,             \* position of the request in get_rates / get_data / normalize_params
    params,         \* the params dict of normalize_params; has: the keys it has gained
    dates,          \* params["date_from"], params["date_to"] once parsed (0: still a string)
    exc,            \* the exception in flight or raised (NoExc: none)
    lookups,        \* the store round trips made so far, in order
    frame,          \* the frame of get_all_regions_within: regions, next_to_check, caller
    response        \* the response of get_rates: status and body

vars == <<regions, ports, prices, alldates, conn, args, pc,
          params, dates, exc, lookups, frame, response>>

\* what a request only reads
store == <<regions, ports, prices, alldates, args>>

--------------------------------------------------------------------------
(* Bounds of the model. *)

MaxRegions == 3     \* region slugs the traversal's regions tables are built from
MaxLookups == 6     \* child lookups one traversal may make in the model
MaxDays    == 3     \* calendar days 2016-01-01 .. 2016-01-0<MaxDays>
MaxPrices  == 4     \* rows of the prices table

--------------------------------------------------------------------------
(* Strings: identifiers keep their case; str.lower() and SQL LOWER() fold it. *)

NULL == "NULL"

UpperToLower ==
    [s \in {"A", "B", "C", "P", "Q", "X"} |->
        CASE s = "A" -> "a" [] s = "B" -> "b" [] s = "C" -> "c"
          [] s = "P" -> "p" [] s = "Q" -> "q" [] s = "X" -> "x"]

Lower(s) == IF s \in DOMAIN UpperToLower THEN UpperToLower[s] ELSE s

SlugNames == <<"a", "b", "c", "d", "e">>

Slugs == {SlugNames[i] : i \in 1..MaxRegions}

--------------------------------------------------------------------------
(* Sequences helpers. *)

Range(s) == {s[i] : i \in DOMAIN s}

Perms(S) == {p \in [1..Cardinality(S) -> S] : Range(p) = S}

\* the elements of a set of integers in ascending order
Ascending(S) ==
    [i \in 1..Cardinality(S) |-> CHOOSE d \in S : Cardinality({e \in S : e < d}) = i - 1]

--------------------------------------------------------------------------
(* The values a request starts from. *)

NoExc == [kind |-> "none", field |-> "", msg |-> <<>>]

NoParams ==
    [date_from |-> "", date_to |-> "", origin |-> "", destination |-> "",
     origin_is_region |-> FALSE, destination_is_region |-> FALSE,
     origin_parents |-> <<>>, destination_parents |-> <<>>, has |-> {}]

NoDates == [date_from |-> 0, date_to |-> 0]

NoResponse == [status |-> 0, body |-> <<>>]

--------------------------------------------------------------------------
(* The store's lookups (rates.py 62-92). *)

\* A traversal that stops below the first level: the start's own children only.
RegionChildrenOneLevel(region_slug) ==
    IF region_slug = frame.region_slug
    THEN {s \in DOMAIN regions : regions[s] = region_slug}
    ELSE {}

\* SELECT slug FROM regions WHERE parent_slug=%s : the rows, as a set
RegionChildren(region_slug) ==
    {s \in DOMAIN regions : regions[s] = region_slug}

\* get_region_children: the rows in some order (the query has no ORDER BY)
get_region_children(region_slug) == Perms(RegionChildren(region_slug))

\* SELECT * FROM regions WHERE LOWER(slug)=%s ... fetchone() is not None
is_region(region_slug) == \E s \in DOMAIN regions : Lower(s) = region_slug

\* SELECT * FROM ports WHERE LOWER(code)=%s ... fetchone() is not None
is_port_code(code) == \E c \in DOMAIN ports : Lower(c) = code

--------------------------------------------------------------------------
(* get_all_regions_within (rates.py 71-82), one loop iteration per step.  *)

NoFrame == [region_slug |-> "", regions |-> <<>>, next_to_check |-> 0, caller |-> "none"]

\* regions = [region_slug]; next_to_check = 0
NewFrame(region_slug, caller) ==
    [region_slug |-> region_slug, regions |-> <<region_slug>>,
     next_to_check |-> 0, caller |-> caller]

ChildLookups == {i \in DOMAIN lookups : lookups[i][1] = "get_region_children"}

\* while next_to_check < len(regions): regions.extend(children); next_to_check += 1
ExpandStep ==
    /\ pc = "expanding"
    /\ frame.next_to_check < Len(frame.regions)
    /\ frame.next_to_check < MaxLookups
    /\ LET cur == frame.regions[frame.next_to_check + 1] IN
         \E children \in get_region_children(cur) :
            /\ frame' = [frame EXCEPT !.regions = @ \o children,
                                      !.next_to_check = @ + 1]
            /\ lookups' = Append(lookups, <<"get_region_children", cur>>)
    /\ UNCHANGED <<store, conn, pc, params, dates, exc, response>>

\* return regions: to the caller's params key (normalize_params 137-146) or to a direct caller
ExpandReturn ==
    /\ pc = "expanding"
    /\ frame.next_to_check >= Len(frame.regions)
    /\ params' = CASE frame.caller = "origin" ->
                        [params EXCEPT !.origin_parents = frame.regions,
                                       !.has = @ \cup {"origin_parents"}]
                   [] frame.caller = "destination" ->
                        [params EXCEPT !.destination_parents = frame.regions,
                                       !.has = @ \cup {"destination_parents"}]
                   [] OTHER -> params
    /\ pc' = CASE frame.caller = "origin" -> "expand_destination"
               [] frame.caller = "destination" -> "execute"
               [] OTHER -> "returned"
    /\ UNCHANGED <<store, conn, dates, exc, lookups, frame, response>>

--------------------------------------------------------------------------
(* normalize_params (rates.py 94-148). *)

\* the keys in the order the docstrings list them: the endpoints first
ParamKeysEndpointsFirst == <<"origin", "destination", "date_from", "date_to">>

\* the keys of the params dict in the order get_rates builds it (rates.py 207-212)
ParamKeys == <<"date_from", "date_to", "origin", "destination">>

DayNames == <<"2016-01-01", "2016-01-02", "2016-01-03", "2016-01-04", "2016-01-05">>

\* datetime.strptime(s, "%Y-%m-%d"): the day's number, 0 for a ValueError;
\* %m and %d take one digit too, so "2016-1-2" is the second of January
strptime(s) ==
    IF \E i \in DOMAIN DayNames : DayNames[i] = s
    THEN CHOOSE i \in DOMAIN DayNames : DayNames[i] = s
    ELSE IF s = "2016-1-2" THEN 2 ELSE 0

ValidationError(field, msg) == [kind |-> "ValidationError", field |-> field, msg |-> msg]

BlankMsg == <<"This field cannot be blank.">>
FormatMsg(v) == <<v, " is not a valid date in YYYY-mm-dd format.">>
OrderMsg == <<"date_to cannot be before date_from.">>
InvalidMsg(v) == <<v, " is not a valid region slug or port code.">>

\* for key in params: params[key] = params[key].lower()
Lowercased(p) ==
    [p EXCEPT !.date_from = Lower(@), !.date_to = Lower(@),
              !.origin = Lower(@), !.destination = Lower(@)]

\* a comparison that also rejects a one-day range
DateToNotAfterDateFrom(p) == strptime(p.date_to) <= strptime(p.date_from)

\* line 122: params["date_to"] < params["date_from"]
DateToBeforeDateFrom(p) == strptime(p.date_to) < strptime(p.date_from)

\* the date keys tried in the opposite order
DateKeysToFirst == <<"date_to", "date_from">>

\* for key in ["date_from", "date_to"]
DateKeys == <<"date_from", "date_to">>

\* the checks of lines 107-123 on the lowercased dict, in the code's order:
\* the first ValidationError raised, NoExc when none is
ValidationFailure(p) ==
    LET blank == {i \in DOMAIN ParamKeys : p[ParamKeys[i]] = ""}
        bad   == {i \in DOMAIN DateKeys : strptime(p[DateKeys[i]]) = 0}
    IN  IF blank # {}
        THEN ValidationError(ParamKeys[CHOOSE i \in blank : \A j \in blank : i <= j], BlankMsg)
        ELSE IF bad # {}
        THEN LET key == DateKeys[CHOOSE i \in bad : \A j \in bad : i <= j]
             IN  ValidationError(key, FormatMsg(p[key]))
        ELSE IF DateToBeforeDateFrom(p)
        THEN ValidationError("date_to", OrderMsg)
        ELSE NoExc

\* lines 103-123: lowercase, blank check, date formats, date order
ValidateFields ==
    /\ pc = "normalize"
    /\ LET p == Lowercased(params)
           e == ValidationFailure(p)
       IN  /\ params' = p
           /\ exc' = e
           /\ IF e # NoExc
              THEN /\ pc' = "raised"
                   /\ dates' = dates
              ELSE /\ pc' = "classify_origin"
                   /\ dates' = [date_from |-> strptime(p.date_from),
                                date_to |-> strptime(p.date_to)]
    /\ UNCHANGED <<store, conn, lookups, frame, response>>

\* a classification that asks the ports table first
ClassificationPortFirst(v) ==
    IF is_port_code(v) THEN "terminal" ELSE IF is_region(v) THEN "region" ELSE "invalid"

\* lines 127-130: is_region first, is_port_code only when it is no region
Classification(v) ==
    IF is_region(v) THEN "region" ELSE IF is_port_code(v) THEN "terminal" ELSE "invalid"

\* the round trips of one classification, in order
ClassificationLookups(v) ==
    IF is_region(v) THEN << <<"is_region", v>> >>
    ELSE << <<"is_region", v>>, <<"is_port_code", v>> >>

\* params[key + "_is_region"] = is_region
SetIsRegion(p, key, flag) ==
    IF key = "origin"
    THEN [p EXCEPT !.origin_is_region = flag, !.has = @ \cup {"origin_is_region"}]
    ELSE [p EXCEPT !.destination_is_region = flag, !.has = @ \cup {"destination_is_region"}]

\* one iteration of the loop of lines 126-133
ClassifyEndpoint(key, at, next) ==
    /\ pc = at
    /\ LET v == params[key]
           c == Classification(v)
       IN  /\ lookups' = lookups \o ClassificationLookups(v)
           /\ params' = SetIsRegion(params, key, c = "region")
           /\ IF c = "invalid"
              THEN /\ exc' = ValidationError(key, InvalidMsg(v))
                   /\ pc' = "raised"
              ELSE /\ exc' = exc
                   /\ pc' = next
    /\ UNCHANGED <<store, conn, dates, frame, response>>

ClassifyOrigin == ClassifyEndpoint("origin", "classify_origin", "classify_destination")

ClassifyDestination == ClassifyEndpoint("destination", "classify_destination", "expand_origin")

\* lines 137-140: if params["origin_is_region"]: get_all_regions_within(params["origin"])
ExpandOrigin ==
    /\ pc = "expand_origin"
    /\ IF params.origin_is_region
       THEN /\ frame' = NewFrame(params.origin, "origin")
            /\ pc' = "expanding"
       ELSE /\ frame' = frame
            /\ pc' = "expand_destination"
    /\ UNCHANGED <<store, conn, params, dates, exc, lookups, response>>

\* lines 143-146: the same for destination, then return params
ExpandDestination ==
    /\ pc = "expand_destination"
    /\ IF params.destination_is_region
       THEN /\ frame' = NewFrame(params.destination, "destination")
            /\ pc' = "expanding"
       ELSE /\ frame' = frame
            /\ pc' = "execute"
    /\ UNCHANGED <<store, conn, params, dates, exc, lookups, response>>

--------------------------------------------------------------------------
(* The query of construct_rates_sql (rates.py 150-191), as PostgreSQL runs it. *)

\* LEFT OUTER JOIN ports ON p.<x>_code = ports.code : the port's parent_slug, NULL
\* when the code has no row in ports (ports.code is the table's key)
PortParent(code) == IF code \in DOMAIN ports THEN ports[code] ELSE NULL

\* lines 158-161: orig_port.parent_slug IN %(origin_parents)s, or LOWER(orig_code) = %(origin)s
origin_clause(row) ==
    IF params.origin_is_region
    THEN PortParent(row.orig_code) # NULL
         /\ PortParent(row.orig_code) \in Range(params.origin_parents)
    ELSE Lower(row.orig_code) = params.origin

\* lines 163-166: the same for the destination
destination_clause(row) ==
    IF params.destination_is_region
    THEN PortParent(row.dest_code) # NULL
         /\ PortParent(row.dest_code) \in Range(params.destination_parents)
    ELSE Lower(row.dest_code) = params.destination

\* the subquery pric (lines 176-184): the rows of prices that pass the WHERE
pric == {i \in DOMAIN prices : origin_clause(prices[i]) /\ destination_clause(prices[i])}

\* an inner join in place of the outer one: the days that have a pric row
GroupedDaysInnerJoin ==
    {d \in alldates : /\ d >= dates.date_from
                      /\ d <= dates.date_to
                      /\ \E i \in pric : prices[i].day = d}

\* FROM alldates d LEFT OUTER JOIN pric ... WHERE d.day >= from AND d.day <= to
\* GROUP BY d.day : one group per day of alldates in the range, matched or not
GroupedDays == {d \in alldates : d >= dates.date_from /\ d <= dates.date_to}

\* the pric rows joined to day d
Joined(d) == {i \in pric : prices[i].day = d}

RECURSIVE SumPrices(_)
SumPrices(I) ==
    IF I = {} THEN 0
    ELSE LET i == CHOOSE x \in I : TRUE IN prices[i].price + SumPrices(I \ {i})

\* a cast that drops the fraction
CastTruncates(total, n) ==
    IF total >= 0 THEN total \div n ELSE -((-total) \div n)

\* CAST(AVG(pric.price) AS int): AVG of an integer column is numeric, and PostgreSQL
\* casts numeric to int by rounding to the nearest integer, halves away from zero
CastAvgAsInt(total, n) ==
    IF total >= 0 THEN (2 * total + n) \div (2 * n)
    ELSE -((2 * (-total) + n) \div (2 * n))

\* CASE WHEN COUNT(pric.day) < 3 THEN NULL ELSE CAST(AVG(pric.price) AS int) END;
\* <<>> is NULL, <<v>> the integer v
average_price(d) ==
    IF Cardinality(Joined(d)) < 3 THEN <<>>
    ELSE <<CastAvgAsInt(SumPrices(Joined(d)), Cardinality(Joined(d)))>>

\* the rows fetched: TO_CHAR(d.day, 'YYYY-mm-dd') and average_price, ORDER BY d.day
RatesRows ==
    LET days == Ascending(GroupedDays)
    IN  [i \in DOMAIN days |->
            [day |-> DayNames[days[i]], average_price |-> average_price(days[i])]]

--------------------------------------------------------------------------
(* get_rates (rates.py 194-219) and get_data (rates.py 45-60). *)

\* lines 196-213: connect, or answer 503; then get_data is called with the four args
Connect ==
    /\ pc = "start"
    /\ \E ok \in BOOLEAN :
          IF ok
          THEN /\ conn' = "open"
               /\ params' = [NoParams EXCEPT !.date_from = args.date_from,
                                             !.date_to = args.date_to,
                                             !.origin = args.origin,
                                             !.destination = args.destination]
               /\ pc' = "normalize"
               /\ response' = response
          ELSE /\ conn' = "failed"
               /\ params' = params
               /\ pc' = "done"
               /\ response' = [status |-> 503,
                               body |-> << <<"message", <<"Database is currently unavailable.">> >> >>]
    /\ UNCHANGED <<store, dates, exc, lookups, frame>>

\* a handler that answers 200 with an empty list
Answer400AsEmpty200 == [status |-> 200, body |-> <<>>]

\* line 215: jsonify({e.args[0]: e.args[1]}), 400
Answer400 == [status |-> 400, body |-> << <<exc.field, exc.msg>> >>]

\* lines 214-215: except ValidationError
HandleValidationError ==
    /\ pc = "raised"
    /\ response' = Answer400
    /\ pc' = "done"
    /\ UNCHANGED <<store, conn, params, dates, exc, lookups, frame>>

\* get_data lines 51-60 and get_rates lines 217-219: run the query and answer 200 with
\* every row; a failed round trip raises psycopg2's error, which get_rates does not
\* catch (the framework answers 500, conn.close() is not reached)
ExecuteQuery ==
    /\ pc = "execute"
    /\ \E ok \in BOOLEAN :
          IF ok
          THEN /\ response' = [status |-> 200, body |-> RatesRows]
               /\ conn' = "closed"
               /\ exc' = exc
          ELSE /\ response' = [status |-> 500, body |-> <<>>]
               /\ conn' = conn
               /\ exc' = [kind |-> "OperationalError", field |-> "", msg |-> <<>>]
    /\ lookups' = Append(lookups, <<"rates_sql", "">>)
    /\ pc' = "done"
    /\ UNCHANGED <<store, params, dates, frame>>

--------------------------------------------------------------------------
(* Requests to /rates: the stores and the requests the model starts from. *)

\* a chain a <- b <- c of lowercase slugs; the port code "B" lowercases to the slug "b"
StoreLower ==
    [regions |-> ("a" :> NULL @@ "b" :> "a" @@ "c" :> "b"),
     ports   |-> ("P" :> "c" @@ "Q" :> "a" @@ "B" :> "b")]

\* a regions table whose root slug is stored in upper case
StoreMixed ==
    [regions |-> ("A" :> NULL @@ "b" :> "A"),
     ports   |-> ("P" :> "b" @@ "Q" :> "A")]

Stores == {StoreLower, StoreMixed}

Days == 1..MaxDays

\* the observations a prices table is filled from: route P -> Q on two days and
\* route Q -> Q on the first, each at three prices
Observations ==
    [k \in 1..9 |->
        [orig_code |-> IF k <= 6 THEN "P" ELSE "Q",
         dest_code |-> "Q",
         day       |-> IF k \in 4..6 THEN 2 ELSE 1,
         price     |-> 1 + ((k - 1) % 3)]]

\* every prices table of at most MaxPrices rows (a table is a bag: rows in index order)
PriceTables ==
    UNION {{[i \in 1..n |-> Observations[ix[i]]] :
              ix \in {f \in [1..n -> DOMAIN Observations] :
                        \A i \in 1..(n - 1) : f[i] <= f[i + 1]}} :
           n \in 0..MaxPrices}

\* three rows of one route and day, one row of another day
FewPrices == <<Observations[1], Observations[2], Observations[2], Observations[4]>>

DateSamples == {"", "01/02/2016", "2016-1-2"} \cup {DayNames[d] : d \in Days}

EndpointSamples == {"", "A", "b", "P", "B", "x"}

\* a calendar with every day, and one with a day missing
Calendars == {Days, Days \ {2}}

\* any request, over a small store
InitRequests ==
    /\ \E st \in Stores : regions = st.regions /\ ports = st.ports
    /\ prices = FewPrices
    /\ alldates \in Calendars
    /\ args \in [date_from : DateSamples, date_to : DateSamples,
                 origin : EndpointSamples, destination : EndpointSamples]

\* a valid request of each shape (terminal or region at either end), over any prices table
InitPrices ==
    /\ \E st \in Stores : regions = st.regions /\ ports = st.ports
    /\ prices \in PriceTables
    /\ alldates = Days
    /\ \E o \in {"P", "A"}, d \in {"Q", "A"}, r \in {<<1, MaxDays>>, <<2, 2>>} :
          args = [date_from |-> DayNames[r[1]], date_to |-> DayNames[r[2]],
                  origin |-> o, destination |-> d]

Init ==
    /\ InitRequests \/ InitPrices
    /\ conn = "none"
    /\ pc = "start"
    /\ params = NoParams
    /\ dates = NoDates
    /\ exc = NoExc
    /\ lookups = << >>
    /\ frame = NoFrame
    /\ response = NoResponse

Next ==
    \/ Connect
    \/ ValidateFields
    \/ ClassifyOrigin
    \/ ClassifyDestination
    \/ ExpandOrigin
    \/ ExpandDestination
    \/ ExpandStep
    \/ ExpandReturn
    \/ ExecuteQuery
    \/ HandleValidationError

Spec == Init /\ [][Next]_vars

--------------------------------------------------------------------------
(* A direct call get_all_regions_within(R), as test_rates.py 85 makes it,  *)
(* over every regions table on Slugs.                                      *)

RegionTables == UNION {[S -> Slugs \cup {NULL}] : S \in SUBSET Slugs}

InitExpand ==
    /\ regions \in RegionTables
    /\ ports = << >>
    /\ prices = << >>
    /\ alldates = {}
    /\ conn = "open"
    /\ args = [date_from |-> "", date_to |-> "", origin |-> "", destination |-> ""]
    /\ pc = "expanding"
    /\ params = NoParams
    /\ dates = NoDates
    /\ exc = NoExc
    /\ lookups = << >>
    /\ \E R \in Slugs \cup {"x"} : frame = NewFrame(R, "direct")
    /\ response = NoResponse

NextExpand == ExpandStep \/ ExpandReturn

SpecExpand == InitExpand /\ [][NextExpand]_vars

--------------------------------------------------------------------------
(* The regions table as a graph, stated without the traversal. *)

RECURSIVE IsDescendant(_, _, _)
\* s lies strictly below r: its parent chain reaches r within fuel steps
IsDescendant(s, r, fuel) ==
    /\ fuel > 0
    /\ s \in DOMAIN regions
    /\ \/ regions[s] = r
       \/ IsDescendant(regions[s], r, fuel - 1)

Descendants(r) ==
    {s \in DOMAIN regions : IsDescendant(s, r, Cardinality(DOMAIN regions))}

\* every parent is a region of the table (or none), and no region lies below itself
Forest ==
    /\ \A s \in DOMAIN regions : regions[s] \in DOMAIN regions \cup {NULL}
    /\ \A s \in DOMAIN regions : s \notin Descendants(s)

\* C4: over an acyclic parent-pointer forest, get_all_regions_within(R) returns a
\* sequence that starts with R and whose elements are exactly R and the transitive
\* descendants of R; an R that is not in the regions table yields <<R>>.
C4_ExpandIsDescendantClosure ==
    (pc = "returned" /\ Forest) =>
        /\ frame.regions[1] = frame.region_slug
        /\ Range(frame.regions) = {frame.region_slug} \cup Descendants(frame.region_slug)
        /\ frame.region_slug \notin DOMAIN regions => frame.regions = <<frame.region_slug>>

\* a returned traversal of a forest that found a grandchild of R
C4_Witness ==
    /\ pc = "returned"
    /\ Forest
    /\ \E s \in Range(frame.regions) :
          /\ s # frame.region_slug
          /\ regions[s] # frame.region_slug
          /\ regions[regions[s]] = frame.region_slug

LookupsOf(r) == {i \in ChildLookups : lookups[i][2] = r}

DistinctRegions == DOMAIN regions \cup {frame.region_slug}

\* C5: whatever the parent relation (cycles included), the children of each distinct
\* region are fetched at most once, and neither the number of child lookups nor the
\* length of the result exceeds the number of distinct regions.
C5_EachRegionExpandedOnce ==
    /\ \A r \in DistinctRegions : Cardinality(LookupsOf(r)) <= 1
    /\ Cardinality(ChildLookups) <= Cardinality(DistinctRegions)
    /\ Len(frame.regions) <= Cardinality(DistinctRegions)

--------------------------------------------------------------------------
(* The request as the claims speak of it, stated from the raw arguments.  *)

Low(k) == Lower(args[k])

MatchesRegion(v) == v \in {Lower(x) : x \in DOMAIN regions}

MatchesTerminal(v) == v \in {Lower(x) : x \in DOMAIN ports}

WellFormed(v) == v \in {DayNames[i] : i \in DOMAIN DayNames} \cup {"2016-1-2"}

\* the day a well-formed date string names
DayOf(v) ==
    IF v = "2016-1-2" THEN 2 ELSE CHOOSE i \in DOMAIN DayNames : DayNames[i] = v

FieldOrder == <<"date_from", "date_to", "origin", "destination">>

BlankFields == {i \in DOMAIN FieldOrder : Low(FieldOrder[i]) = ""}

\* the checks in the documented order: 1 blank, 2 date_from format, 3 date_to format,
\* 4 date order, 5 origin classification, 6 destination classification
FailsCheck(n) ==
    CASE n = 1 -> BlankFields # {}
      [] n = 2 -> ~WellFormed(Low("date_from"))
      [] n = 3 -> ~WellFormed(Low("date_to"))
      [] n = 4 -> /\ WellFormed(Low("date_from"))
                  /\ WellFormed(Low("date_to"))
                  /\ DayOf(Low("date_to")) < DayOf(Low("date_from"))
      [] n = 5 -> ~MatchesRegion(Low("origin")) /\ ~MatchesTerminal(Low("origin"))
      [] n = 6 -> ~MatchesRegion(Low("destination")) /\ ~MatchesTerminal(Low("destination"))

FirstFailing ==
    IF \E n \in 1..6 : FailsCheck(n)
    THEN CHOOSE n \in 1..6 : FailsCheck(n) /\ \A m \in 1..(n - 1) : ~FailsCheck(m)
    ELSE 0

\* the check a raised ValidationError comes from
CheckOf(e) ==
    CASE e.msg = BlankMsg -> 1
      [] e.msg = OrderMsg -> 4
      [] Len(e.msg) = 2 /\ e.msg[2] = FormatMsg("")[2] ->
            IF e.field = "date_from" THEN 2 ELSE IF e.field = "date_to" THEN 3 ELSE 0
      [] Len(e.msg) = 2 /\ e.msg[2] = InvalidMsg("")[2] ->
            IF e.field = "origin" THEN 5 ELSE IF e.field = "destination" THEN 6 ELSE 0
      [] OTHER -> 0

\* the round trips one endpoint's classification costs
LookupsToClassify(v) ==
    IF MatchesRegion(v) THEN << <<"is_region", v>> >>
    ELSE << <<"is_region", v>>, <<"is_port_code", v>> >>

\* the round trips made by the time check n fails
LookupsBeforeFailure(n) ==
    CASE n = 5 -> LookupsToClassify(Low("origin"))
      [] n = 6 -> LookupsToClassify(Low("origin")) \o LookupsToClassify(Low("destination"))
      [] OTHER -> << >>

\* normalize_params has run its checks of lines 103-123
Validated == conn # "failed" /\ pc \notin {"start", "normalize"}

Raised == exc.kind = "ValidationError"

\* C6: the checks run in the order blank, date_from format, date_to format, date order,
\* origin classification, destination classification, expansion; the error raised is
\* that of the first failing check, no store lookup follows it, and no child lookup is
\* made unless both endpoints were classified.
C6_FirstFailureWins ==
    Validated =>
        /\ Raised => /\ CheckOf(exc) = FirstFailing
                     /\ lookups = LookupsBeforeFailure(FirstFailing)
        /\ ~Raised => /\ pc = "classify_origin" => FirstFailing \notin 1..4 /\ lookups = << >>
                      /\ pc = "classify_destination" =>
                            /\ FirstFailing \notin 1..5
                            /\ lookups = LookupsToClassify(Low("origin"))
                      /\ pc \notin {"classify_origin", "classify_destination"} =>
                            FirstFailing = 0
        /\ ChildLookups # {} =>
              /\ {"origin_is_region", "destination_is_region"} \subseteq params.has
              /\ ~Raised
              /\ \A i \in ChildLookups : \A j \in DOMAIN lookups :
                    lookups[j][1] \in {"is_region", "is_port_code"} => j < i

\* both dates malformed and the origin unknown: the error is date_from's, with no lookup
C6_Witness ==
    /\ pc = "done"
    /\ response.status = 400
    /\ FailsCheck(2) /\ FailsCheck(3) /\ FailsCheck(5)
    /\ exc.field = "date_from"

\* C7 as stated: every field that is empty after lowercasing is the field the error names.
C7_EveryBlankFieldNamed ==
    Validated =>
        \A i \in BlankFields : exc = ValidationError(FieldOrder[i], BlankMsg)

\* C7, amended: when some field is empty after lowercasing, normalize_params raises the
\* "blank" ValidationError for the first empty field in the order date_from, date_to,
\* origin, destination, whatever the other fields hold, and makes no lookup.
C7_FirstBlankFieldNamed ==
    (Validated /\ BlankFields # {}) =>
        /\ Raised
        /\ exc.msg = BlankMsg
        /\ \E i \in BlankFields : /\ exc.field = FieldOrder[i]
                                  /\ \A j \in BlankFields : i <= j
        /\ lookups = << >>

\* date_to and origin empty, date_from malformed: the error is date_to's blank
C7_Witness ==
    /\ pc = "done"
    /\ BlankFields = {2, 3}
    /\ ~WellFormed(Low("date_from"))
    /\ response = [status |-> 400, body |-> << <<"date_to", BlankMsg>> >>]

\* C8 as stated: for every pair of well-formed dates the error is on date_to exactly
\* when date_to is strictly earlier than date_from.
C8_DateOrderForAllRequests ==
    (Validated /\ WellFormed(Low("date_from")) /\ WellFormed(Low("date_to"))) =>
        ((Raised /\ exc.field = "date_to")
            <=> DayOf(Low("date_to")) < DayOf(Low("date_from")))

\* C8, amended: for every pair of well-formed dates and non-empty origin and
\* destination, the error is on date_to exactly when date_to is strictly earlier
\* than date_from; equal dates pass.
C8_DateOrderWhenNoFieldBlank ==
    (Validated /\ WellFormed(Low("date_from")) /\ WellFormed(Low("date_to"))
       /\ Low("origin") # "" /\ Low("destination") # "") =>
        /\ (Raised /\ exc.field = "date_to")
              <=> DayOf(Low("date_to")) < DayOf(Low("date_from"))
        /\ (Raised /\ exc.field = "date_to") => exc.msg = OrderMsg

\* an inverted range answered 400 on date_to
C8_Witness ==
    /\ pc = "done"
    /\ WellFormed(Low("date_from")) /\ WellFormed(Low("date_to"))
    /\ DayOf(Low("date_to")) < DayOf(Low("date_from"))
    /\ response = [status |-> 400, body |-> << <<"date_to", OrderMsg>> >>]

\* all fields non-blank, both dates well-formed and in order
DatesValid == Validated /\ \A n \in 1..4 : ~FailsCheck(n)

OriginClassified == "origin_is_region" \in params.has

DestinationClassified == "destination_is_region" \in params.has

\* C9: with the fields non-blank and the dates valid, an endpoint is a region when its
\* lowercased value matches a region (even if it matches a terminal too), a terminal
\* when it matches a terminal only, and otherwise the error names its field; origin is
\* classified first, so an unknown origin is the one named and the destination is not
\* looked up.
C9_RegionBeforeTerminal ==
    DatesValid =>
        /\ OriginClassified =>
              /\ params.origin_is_region = MatchesRegion(Low("origin"))
              /\ FailsCheck(5) <=> exc = ValidationError("origin", InvalidMsg(Low("origin")))
              /\ FailsCheck(5) => ~DestinationClassified
        /\ DestinationClassified =>
              /\ OriginClassified
              /\ params.destination_is_region = MatchesRegion(Low("destination"))
              /\ FailsCheck(6) <=>
                    exc = ValidationError("destination", InvalidMsg(Low("destination")))
        /\ pc \notin {"classify_origin", "classify_destination", "raised", "done"} =>
              /\ OriginClassified /\ DestinationClassified
              /\ ~params.origin_is_region => MatchesTerminal(Low("origin"))
              /\ ~params.destination_is_region => MatchesTerminal(Low("destination"))

\* an origin that matches a region and a terminal, classified as a region
C9_Witness ==
    /\ DatesValid
    /\ pc = "done"
    /\ MatchesRegion(Low("origin")) /\ MatchesTerminal(Low("origin"))
    /\ params.origin_is_region
    /\ response.status = 200

\* C10: a request ends in exactly one outcome: 503 for a connection that cannot be
\* made, before any query and with no rows; 400 mapping the field to the message for
\* a ValidationError; 200 with every row only when nothing failed.
C10_OneOutcomePerFailure ==
    /\ pc # "done" => response = NoResponse
    /\ pc = "done" =>
          \/ /\ conn = "failed"
             /\ exc = NoExc
             /\ lookups = << >>
             /\ response = [status |-> 503,
                            body |-> << <<"message", <<"Database is currently unavailable.">> >> >>]
          \/ /\ conn = "open"
             /\ Raised
             /\ FirstFailing # 0
             /\ response = [status |-> 400, body |-> << <<exc.field, exc.msg>> >>]
          \/ /\ conn = "open"
             /\ exc.kind = "OperationalError"
             /\ response = [status |-> 500, body |-> << >>]
          \/ /\ conn = "closed"
             /\ exc = NoExc
             /\ FirstFailing = 0
             /\ response.status = 200
             /\ Len(response.body) =
                  Cardinality({d \in alldates : /\ d >= DayOf(Low("date_from"))
                                                /\ d <= DayOf(Low("date_to"))})

\* a request with an unknown origin, answered 400
C10_Witness ==
    /\ pc = "done"
    /\ FailsCheck(5)
    /\ response = [status |-> 400,
                   body |-> << <<"origin", InvalidMsg(Low("origin"))>> >>]

--------------------------------------------------------------------------
(* The rows of a 200 response. *)

Answered200 == pc = "done" /\ response.status = 200

Rows == response.body

\* the calendar table has every day of [date_from, date_to]
CalendarCovers == \A d \in dates.date_from..dates.date_to : d \in alldates

\* C1: whatever the prices table holds, the query returns (date_to - date_from).days + 1
\* rows, the i-th being the i-th calendar day of the range, given a calendar table that
\* covers the range.
C1_OneRowPerDay ==
    (Answered200 /\ CalendarCovers) =>
        /\ Len(Rows) = dates.date_to - dates.date_from + 1
        /\ \A i \in DOMAIN Rows : Rows[i].day = DayNames[dates.date_from + i - 1]

\* an empty prices table and a range of several days, answered with every day
C1_Witness ==
    /\ Answered200
    /\ CalendarCovers
    /\ prices = << >>
    /\ dates.date_from < dates.date_to
    /\ Len(Rows) = dates.date_to - dates.date_from + 1

\* the observations of the prices table that count for the day a row names
MatchingOn(day) == {i \in pric : DayNames[prices[i].day] = day}

Total(I) == SumPrices(I)

InRegionSet(code, parents) ==
    /\ code \in DOMAIN ports
    /\ Lower(ports[code]) \in {Lower(x) : x \in Range(parents)}

\* C3: an observation counts iff its origin clause and its destination clause hold:
\* for a terminal endpoint the codes are equal case-insensitively; for a region
\* endpoint the owning region of the observation's terminal is in the descendant set,
\* region identifiers being case-insensitive.
C3_CountsIffBothClauses ==
    Answered200 =>
        \A i \in DOMAIN prices :
            i \in pric <=>
                /\ IF params.origin_is_region
                   THEN InRegionSet(prices[i].orig_code, params.origin_parents)
                   ELSE Lower(prices[i].orig_code) = Low("origin")
                /\ IF params.destination_is_region
                   THEN InRegionSet(prices[i].dest_code, params.destination_parents)
                   ELSE Lower(prices[i].dest_code) = Low("destination")

====
